---- MODULE Spec2Model ----
(***************************************************************************)
(* Wordle Wars (src/src/WordleWars.vue): the decentralised game-state      *)
(* machine.  Every client keeps its own gameState, publishes its stage in  *)
(* its presence, sees the other clients through `others`, and runs the     *)
(* game event of its current state whenever something it reads changes.    *)
(*                                                                         *)
(* The realtime service (presence replication, the shared list) is not     *)
(* part of the repository; it is modelled by its interface: a client's     *)
(* presence updates reach each peer in the order they were published, a    *)
(* peer may receive several of them at once (only the latest is then       *)
(* visible), and the shared list reaches each replica asynchronously.      *)
(* Of a presence only the stage and rowsComplete are modelled: name,       *)
(* board, score and timeFinished never influence a stage transition.       *)
(*                                                                         *)
(* The watchEffect runs in the scheduler's flush right after the handler   *)
(* that changed something it reads, before any other message, click or     *)
(* timer is handled: it is part of every action, and it runs again when    *)
(* the game event itself changed the stage ("on any change").              *)
(***************************************************************************)
EXTENDS Integers, Sequences, FiniteSets, TLC

\* ------------------------------------------------------------------ bounds
NumClients == 2
MaxTimers == 1
MaxRows == 1
MaxUnready == 1

\* ------------------------------------------------------------------ stages
CONNECTING == "CONNECTING"
INTRO == "INTRO"
WAITING == "WAITING"
READY == "READY"
PLAYING == "PLAYING"
COMPLETE == "COMPLETE"
SCORES == "SCORES"
\* presence.stage before the first updateGameStage: undefined
NoStage == "NONE"

GameState == {CONNECTING, INTRO, WAITING, READY, PLAYING, COMPLETE, SCORES}

\* others: a peer not yet listed, resp. no longer listed
Unseen == "UNSEEN"
Gone == "GONE"

VARIABLES
  status,        \* "loading": page loaded, myPresence.value still null;
                 \* "in": connected to the room; "left": page closed
  storageLoaded, \* savedScores.value() is non-null on this client
  gameState,     \* the client's gameState ref
  prevState,     \* the value gameState had before its last change
  myPresence,    \* myPresence.value: [stage, rows, unready]; unready counts
                 \* the presses of the unready button
  others,        \* others[i][j]: the stage client i holds for peer j (NoStage:
                 \* listed, no presence yet), or Unseen/Gone when not listed
  inFlight,      \* inFlight[i][j]: the stages peer j published that client i
                 \* has not received yet, oldest first
  savedScores,   \* the shared list 'scores-<answer>': who pushed, in order
  scoresSeen,    \* how many entries the client's replica of the list holds
  timers         \* pending setTimeout(..., 800) start callbacks

vars == <<status, storageLoaded, gameState, prevState, myPresence, others,
          inFlight, savedScores, scoresSeen, timers>>

\* The clients of the room: the pages that were opened
Clients == DOMAIN status

Range(s) == {s[n] : n \in 1..Len(s)}

Listed(x) == x \notin {Unseen, Gone}

\* others.value.toArray() on client i when it holds o: peer |-> stage
othersArray(o, i) == [j \in {k \in Clients \ {i} : Listed(o[k])} |-> o[j]]

\* ------------------------------------------------------------------ allInStages

\* others.every(other => other.presence && other.presence.stage === stage)
othersEvery(oth, stage) == \A j \in DOMAIN oth : oth[j] = stage

\* stages.some(stage => ...) from position k on: it stops at the first stage
\* every other is in, and myPresenceFound is updated for the stages it
\* visited only.  <<result of some, myPresenceFound>>
RECURSIVE someStage(_, _, _, _, _)
someStage(me, oth, stages, k, found) ==
  IF k > Len(stages) THEN <<FALSE, found>>
  ELSE LET f == found \/ me = stages[k]
       IN  IF othersEvery(oth, stages[k]) THEN <<TRUE, f>>
           ELSE someStage(me, oth, stages, k + 1, f)

\* allInStages(stages) on a client whose presence stage is `me` and whose
\* others are `oth`
allInStages(me, oth, stages) ==
  IF DOMAIN oth = {} THEN FALSE
  ELSE LET r == someStage(me, oth, stages, 1, FALSE) IN r[1] /\ r[2]

StartStages == <<READY, PLAYING>>
FinishStages == <<SCORES, COMPLETE, WAITING>>

\* ------------------------------------------------------------------ game events
\* A client's local state while a handler runs: L.gs gameState, L.prev the
\* stage before, L.me myPresence.value, L.conn whether myPresence.value is
\* set, L.loaded and L.nsc the scores list, L.oth others, L.tm the pending
\* timers, L.pub the stages it published.

\* updateGameStage(stage)
updateGameStage(L, stage) ==
  IF L.conn
  THEN [L EXCEPT !.gs = stage,
                 !.prev = IF stage = L.gs THEN @ ELSE L.gs,
                 !.me.stage = stage,
                 !.pub = Append(@, stage)]
  ELSE L

\* A CONNECTING event that does not wait for the scores list
connectedToPresenceAndScores_presenceOnly(L) == L.conn

\* gameEvents[CONNECTING]: myPresence?.value && savedScores?.value()
connectedToPresenceAndScores(L) == L.conn /\ L.loaded

\* An INTRO event that needs two scores in the list
scoresFound_moreThanOne(L) == L.loaded /\ L.nsc > 1

\* gameEvents[INTRO]: savedScores?.value()?.toArray().length
scoresFound(L) == L.loaded /\ L.nsc > 0

\* gameEvents[READY]
startCondition(L) == allInStages(L.me.stage, L.oth, StartStages)

\* gameEvents[COMPLETE]
finishCondition(L) == allInStages(L.me.stage, L.oth, FinishStages)

\* gameEvents[gameState]?.(): the stage the event moves to, or NoStage
eventTarget(L) ==
  CASE L.gs = CONNECTING /\ connectedToPresenceAndScores(L) -> INTRO
    [] L.gs = INTRO /\ scoresFound(L) -> SCORES
    [] L.gs = COMPLETE /\ finishCondition(L) -> SCORES
    [] OTHER -> NoStage

\* One run of the watchEffect: gameEvents[gameState]?.().  The READY event
\* schedules the start timer
gameEvent(L) ==
  LET t == eventTarget(L) IN
  IF t # NoStage
  THEN updateGameStage(L, t)
  ELSE IF L.gs = READY /\ startCondition(L)
       THEN [L EXCEPT !.tm = @ + 1]
       ELSE L

\* Client i's local state as a handler finds it
Local(i) ==
  [gs |-> gameState[i], prev |-> prevState[i], me |-> myPresence[i],
   conn |-> status[i] = "in", loaded |-> storageLoaded[i],
   nsc |-> scoresSeen[i], oth |-> othersArray(others[i], i),
   tm |-> timers[i], pub |-> <<>>]

\* The room sends what `i` published to every client that lists it
broadcast(fl, i, pub) ==
  [k \in Clients |->
     IF k # i /\ status[k] = "in" /\ Listed(others[k][i])
     THEN [fl[k] EXCEPT ![i] = @ \o pub]
     ELSE fl[k]]

\* The handler is over: the watchEffect runs, and again after a run that
\* changed the stage (no stage is left after more than two changes in a
\* row); what results is the new state of client i.  fl is inFlight as the
\* handler left it
Settle(i, L0, fl) ==
  \E A \in {L0} :
  \E B \in {gameEvent(A)} :
  \E C \in {IF B.gs = A.gs THEN B ELSE gameEvent(B)} :
  \E L \in {IF C.gs = B.gs THEN C ELSE gameEvent(C)} :
    /\ L.tm <= MaxTimers
    /\ gameState' = [gameState EXCEPT ![i] = L.gs]
    /\ prevState' = [prevState EXCEPT ![i] = L.prev]
    /\ myPresence' = [myPresence EXCEPT ![i] = L.me]
    /\ timers' = [timers EXCEPT ![i] = L.tm]
    /\ inFlight' = broadcast(fl, i, L.pub)

\* ------------------------------------------------------------------ Init
\* The list 'scores-<answer>' outlives a session: it may hold the score of
\* somebody who played the same word earlier and is no longer in the room
EarlierPlayer == 0

\* Every page of the room was just loaded: gameState = CONNECTING, no
\* presence, no others, no list replica, no timer
InitRoom(room) ==
  /\ status = [i \in room |-> "loading"]
  /\ storageLoaded = [i \in room |-> FALSE]
  /\ gameState = [i \in room |-> CONNECTING]
  /\ prevState = [i \in room |-> CONNECTING]
  /\ myPresence = [i \in room |->
                     [stage |-> NoStage, rows |-> 0, unready |-> 0]]
  /\ others = [i \in room |-> [j \in room |-> Unseen]]
  /\ inFlight = [i \in room |-> [j \in room |-> <<>>]]
  /\ savedScores \in {<<>>, <<EarlierPlayer>>}
  /\ scoresSeen = [i \in room |-> 0]
  /\ timers = [i \in room |-> 0]

Init == InitRoom(1..NumClients)

\* ------------------------------------------------------------------ actions

\* The room connection opens: myPresence.value becomes an object
Connect(i) ==
  /\ status[i] = "loading"
  /\ status' = [status EXCEPT ![i] = "in"]
  /\ Settle(i, [Local(i) EXCEPT !.conn = TRUE], inFlight)
  /\ UNCHANGED <<storageLoaded, others, savedScores, scoresSeen>>

\* The room storage loads: savedScores.value() returns the list
LoadStorage(i) ==
  /\ status[i] = "in"
  /\ ~storageLoaded[i]
  /\ storageLoaded' = [storageLoaded EXCEPT ![i] = TRUE]
  /\ scoresSeen' = [scoresSeen EXCEPT ![i] = Len(savedScores)]
  /\ Settle(i, [Local(i) EXCEPT !.loaded = TRUE, !.nsc = Len(savedScores)],
            inFlight)
  /\ UNCHANGED <<status, others, savedScores>>

\* A start timer that works as a host: it starts the game for everybody
StartTimer_everybody(i) ==
  /\ status[i] = "in"
  /\ timers[i] > 0
  /\ timers' = [timers EXCEPT ![i] = @ - 1]
  /\ prevState' = [j \in Clients |->
                     IF gameState[j] = PLAYING THEN prevState[j]
                     ELSE gameState[j]]
  /\ gameState' = [j \in Clients |-> PLAYING]
  /\ myPresence' = [j \in Clients |-> [myPresence[j] EXCEPT !.stage = PLAYING]]
  /\ UNCHANGED <<status, storageLoaded, others, inFlight, savedScores,
                 scoresSeen>>

\* The callback of setTimeout: updateGameStage(PLAYING), whatever the
\* client's stage is by then (the timer is never cleared)
StartTimer(i) ==
  /\ status[i] = "in"
  /\ timers[i] > 0
  /\ Settle(i, updateGameStage([Local(i) EXCEPT !.tm = @ - 1], PLAYING),
            inFlight)
  /\ UNCHANGED <<status, storageLoaded, others, savedScores, scoresSeen>>

\* The intro form (shown while gameState = INTRO) is submitted: the default
\* presence (rowsComplete 0, the stage the client is in), then WAITING
enterWaitingRoom(i) ==
  /\ status[i] = "in"
  /\ gameState[i] = INTRO
  /\ Settle(i, updateGameStage(
                 updateGameStage([Local(i) EXCEPT !.me.rows = 0],
                                 gameState[i]),
                 WAITING),
            inFlight)
  /\ UNCHANGED <<status, storageLoaded, others, savedScores, scoresSeen>>

\* The waiting room (shown while gameState is WAITING or READY) shows the
\* ready button when myPresence.stage !== READY, else the unready button
PressReady(i) ==
  /\ status[i] = "in"
  /\ gameState[i] \in {WAITING, READY}
  /\ myPresence[i].stage # READY
  /\ Settle(i, updateGameStage(Local(i), READY), inFlight)
  /\ UNCHANGED <<status, storageLoaded, others, savedScores, scoresSeen>>

\* An unready button that sends the client back to the intro form
PressUnready_toIntro(i) ==
  /\ status[i] = "in"
  /\ gameState[i] \in {WAITING, READY}
  /\ myPresence[i].stage = READY
  /\ myPresence[i].unready < MaxUnready
  /\ Settle(i, updateGameStage([Local(i) EXCEPT !.me.unready = @ + 1],
                               INTRO),
            inFlight)
  /\ UNCHANGED <<status, storageLoaded, others, savedScores, scoresSeen>>

PressUnready(i) ==
  /\ status[i] = "in"
  /\ gameState[i] \in {WAITING, READY}
  /\ myPresence[i].stage = READY
  /\ myPresence[i].unready < MaxUnready
  /\ Settle(i, updateGameStage([Local(i) EXCEPT !.me.unready = @ + 1],
                               WAITING),
            inFlight)
  /\ UNCHANGED <<status, storageLoaded, others, savedScores, scoresSeen>>

\* The Game component (mounted while PLAYING or COMPLETE) reports a guessed
\* row: a presence update that leaves the stage as it is
onLettersGuessed(i) ==
  /\ status[i] = "in"
  /\ gameState[i] = PLAYING
  /\ myPresence[i].rows < MaxRows
  /\ Settle(i, [Local(i) EXCEPT !.me.rows = @ + 1,
                                !.pub = <<myPresence[i].stage>>],
            inFlight)
  /\ UNCHANGED <<status, storageLoaded, others, savedScores, scoresSeen>>

\* The Game component reports the end of the puzzle
onGameComplete(i) ==
  /\ status[i] = "in"
  /\ gameState[i] = PLAYING
  /\ savedScores' = Append(savedScores, i)
  /\ scoresSeen' = [scoresSeen EXCEPT ![i] = @ + 1]
  /\ Settle(i, [updateGameStage(Local(i), COMPLETE) EXCEPT !.nsc = @ + 1],
            inFlight)
  /\ UNCHANGED <<status, storageLoaded, others>>

\* ---- the realtime service, as client i sees it

\* others lists a peer that entered the room; the peer's presence, if it
\* published one, follows
DeliverJoin(i, j) ==
  /\ i # j
  /\ status[i] = "in"
  /\ status[j] = "in"
  /\ others[i][j] = Unseen
  /\ others' = [others EXCEPT ![i][j] = NoStage]
  /\ Settle(i, [Local(i) EXCEPT !.oth = othersArray(others'[i], i)],
            [inFlight EXCEPT ![i][j] =
               IF myPresence[j].stage = NoStage THEN <<>>
               ELSE <<myPresence[j].stage>>])
  /\ UNCHANGED <<status, storageLoaded, savedScores, scoresSeen>>

\* others receives the first n presence updates of peer j that are in
\* flight; the last one is the presence it holds from then on
DeliverPresence(i, j, n) ==
  /\ i # j
  /\ status[i] = "in"
  /\ Listed(others[i][j])
  /\ n \in 1..Len(inFlight[i][j])
  /\ others' = [others EXCEPT ![i][j] = inFlight[i][j][n]]
  /\ Settle(i, [Local(i) EXCEPT !.oth = othersArray(others'[i], i)],
            [inFlight EXCEPT ![i][j] =
               SubSeq(@, n + 1, Len(@))])
  /\ UNCHANGED <<status, storageLoaded, savedScores, scoresSeen>>

\* others drops a peer that left the room
DeliverLeave(i, j) ==
  /\ i # j
  /\ status[i] = "in"
  /\ status[j] = "left"
  /\ Listed(others[i][j])
  /\ others' = [others EXCEPT ![i][j] = Gone]
  /\ Settle(i, [Local(i) EXCEPT !.oth = othersArray(others'[i], i)],
            [inFlight EXCEPT ![i][j] = <<>>])
  /\ UNCHANGED <<status, storageLoaded, savedScores, scoresSeen>>

\* The replica of the shared list catches up with the entries others pushed
DeliverScores(i) ==
  /\ status[i] = "in"
  /\ storageLoaded[i]
  /\ scoresSeen[i] < Len(savedScores)
  /\ scoresSeen' = [scoresSeen EXCEPT ![i] = Len(savedScores)]
  /\ Settle(i, [Local(i) EXCEPT !.nsc = Len(savedScores)], inFlight)
  /\ UNCHANGED <<status, storageLoaded, others, savedScores>>

\* The player closes the page: its timers, its others and what was in
\* flight to it are gone
Leave(i) ==
  /\ status[i] = "in"
  /\ status' = [status EXCEPT ![i] = "left"]
  /\ timers' = [timers EXCEPT ![i] = 0]
  /\ others' = [others EXCEPT ![i] = [j \in Clients |-> Unseen]]
  /\ inFlight' = [inFlight EXCEPT ![i] = [j \in Clients |-> <<>>]]
  /\ UNCHANGED <<storageLoaded, gameState, prevState, myPresence,
                 savedScores, scoresSeen>>

\* ------------------------------------------------------------------ Next
\* The pages a room can hold in this model
Seats == 1..(NumClients + 1)

Next ==
  \/ \E i \in Seats : i \in Clients /\ Connect(i)
  \/ \E i \in Seats : i \in Clients /\ LoadStorage(i)
  \/ \E i \in Seats : i \in Clients /\ StartTimer(i)
  \/ \E i \in Seats : i \in Clients /\ enterWaitingRoom(i)
  \/ \E i \in Seats : i \in Clients /\ PressReady(i)
  \/ \E i \in Seats : i \in Clients /\ PressUnready(i)
  \/ \E i \in Seats : i \in Clients /\ onLettersGuessed(i)
  \/ \E i \in Seats : i \in Clients /\ onGameComplete(i)
  \/ \E i \in Seats : i \in Clients /\ DeliverScores(i)
  \/ \E i \in Seats : i \in Clients /\ Leave(i)
  \/ \E i \in Seats : i \in Clients /\ \E j \in Clients : DeliverJoin(i, j)
  \/ \E i \in Seats : i \in Clients /\ \E j \in Clients : DeliverLeave(i, j)
  \/ \E i \in Seats : i \in Clients /\ \E j \in Clients \ {i} :
       \E n \in 1..Len(inFlight[i][j]) : DeliverPresence(i, j, n)

Spec == Init /\ [][Next]_vars

\* ---- the start of a game in a room of one more client.  Every client is
\* in the waiting room and every presence was delivered (each page
\* connected, loaded the list, submitted the intro form, and the room
\* delivered everything); from there nobody un-readies, leaves or finishes
InitWaitingRoom(room) ==
  /\ status = [i \in room |-> "in"]
  /\ storageLoaded = [i \in room |-> TRUE]
  /\ gameState = [i \in room |-> WAITING]
  /\ prevState = [i \in room |-> INTRO]
  /\ myPresence = [i \in room |->
                     [stage |-> WAITING, rows |-> 0, unready |-> 0]]
  /\ others = [i \in room |->
                 [j \in room |-> IF j = i THEN Unseen ELSE WAITING]]
  /\ inFlight = [i \in room |-> [j \in room |-> <<>>]]
  /\ savedScores = <<>>
  /\ scoresSeen = [i \in room |-> 0]
  /\ timers = [i \in room |-> 0]

InitStart == InitWaitingRoom(Seats)

NextStart ==
  \/ \E i \in Seats : i \in Clients /\ PressReady(i)
  \/ \E i \in Seats : i \in Clients /\ StartTimer(i)
  \/ \E i \in Seats : i \in Clients /\ \E j \in Clients \ {i} :
       \E n \in 1..Len(inFlight[i][j]) : DeliverPresence(i, j, n)

SpecStart == InitStart /\ [][NextStart]_vars

\* ---- a late joiner.  The first NumClients clients are playing and every
\* presence was delivered; one more page is opened while they finish the
\* puzzle, and its player may submit the intro form
Players == 1..NumClients

InitLateJoin ==
  /\ status = [i \in Seats |-> IF i \in Players THEN "in" ELSE "loading"]
  /\ storageLoaded = [i \in Seats |-> i \in Players]
  /\ gameState = [i \in Seats |-> IF i \in Players THEN PLAYING ELSE CONNECTING]
  /\ prevState = [i \in Seats |-> IF i \in Players THEN READY ELSE CONNECTING]
  /\ myPresence = [i \in Seats |->
                     [stage |-> IF i \in Players THEN PLAYING ELSE NoStage,
                      rows |-> 0, unready |-> 0]]
  /\ others = [i \in Seats |->
                 [j \in Seats |->
                    IF i \in Players /\ j \in Players \ {i} THEN PLAYING
                    ELSE Unseen]]
  /\ inFlight = [i \in Seats |-> [j \in Seats |-> <<>>]]
  /\ savedScores = <<>>
  /\ scoresSeen = [i \in Seats |-> 0]
  /\ timers = [i \in Seats |-> 0]

NextLateJoin ==
  \/ \E i \in Seats : i \in Clients /\ Connect(i)
  \/ \E i \in Seats : i \in Clients /\ LoadStorage(i)
  \/ \E i \in Seats : i \in Clients /\ enterWaitingRoom(i)
  \/ \E i \in Seats : i \in Clients /\ onGameComplete(i)
  \/ \E i \in Seats : i \in Clients /\ DeliverScores(i)
  \/ \E i \in Seats : i \in Clients /\ \E j \in Clients : DeliverJoin(i, j)
  \/ \E i \in Seats : i \in Clients /\ \E j \in Clients \ {i} :
       \E n \in 1..Len(inFlight[i][j]) : DeliverPresence(i, j, n)

SpecLateJoin == InitLateJoin /\ [][NextLateJoin]_vars

\* ================================================================== claims
In(i) == status[i] = "in"

\* The stages client i holds for the peers it lists
peerStages(i) == {others[i][j] : j \in {k \in Clients \ {i} : Listed(others[i][k])}}

\* Every user client i knows of (itself and at least one listed peer) is in
\* one of the stages S
everyUserIn(i, S) ==
  /\ myPresence[i].stage \in S
  /\ peerStages(i) # {}
  /\ peerStages(i) \subseteq S

\* Nothing is in flight to client i and no timer is pending on it
Quiet(i) ==
  /\ timers[i] = 0
  /\ \A j \in Clients \ {i} :
       /\ inFlight[i][j] = <<>>
       /\ In(j) => Listed(others[i][j])

\* ------------------------------------------------------------------ C1
LifecycleOrder ==
  {<<CONNECTING, INTRO>>, <<INTRO, WAITING>>, <<WAITING, READY>>,
   <<READY, PLAYING>>, <<PLAYING, COMPLETE>>, <<COMPLETE, SCORES>>}

\* C1 (as claimed): every change of a client's gameState goes from a stage to
\* the stage that follows it in CONNECTING -> INTRO -> WAITING -> READY ->
\* PLAYING -> COMPLETE -> SCORES.
C1_LinearLifecycle ==
  \A i \in Clients :
    gameState[i] # CONNECTING => <<prevState[i], gameState[i]>> \in LifecycleOrder

\* What the code does besides: scores that exist end the intro, the unready
\* button goes back, and a start timer that fires late sets PLAYING
CodeEdges == LifecycleOrder \cup {<<INTRO, SCORES>>, <<READY, WAITING>>}
LateTimerEdges ==
  {<<WAITING, PLAYING>>, <<COMPLETE, PLAYING>>, <<SCORES, PLAYING>>}

\* The changes of gameState[i] a step made, oldest first (at most two)
changesOf(i) ==
  IF gameState'[i] = gameState[i] /\ prevState'[i] = prevState[i] THEN <<>>
  ELSE IF prevState'[i] = gameState[i]
       THEN <<(<<gameState[i], gameState'[i]>>)>>
       ELSE <<(<<gameState[i], prevState'[i]>>),
              (<<prevState'[i], gameState'[i]>>)>>

\* C1 (amended): every change of a client's gameState is a step of the
\* lifecycle, INTRO -> SCORES, READY -> WAITING, or a change to PLAYING from
\* WAITING, COMPLETE or SCORES; and every change to PLAYING is made by a
\* start timer firing.
C1_Lifecycle ==
  /\ [](\A i \in Clients :
          gameState[i] # CONNECTING =>
            <<prevState[i], gameState[i]>> \in CodeEdges \cup LateTimerEdges)
  /\ [][\A i \in Clients :
          \A n \in DOMAIN changesOf(i) :
            /\ changesOf(i)[n] \in CodeEdges \cup LateTimerEdges
            /\ changesOf(i)[n][2] = PLAYING => timers'[i] < timers[i]]_vars

\* A client went through the whole lifecycle, and another one was moved
\* from WAITING to PLAYING by a timer it had scheduled before it un-readied
C1_Witness ==
  \E i, j \in Clients :
    /\ gameState[i] = SCORES /\ prevState[i] = COMPLETE
    /\ gameState[j] = PLAYING /\ prevState[j] = WAITING

\* ------------------------------------------------------------------ C2
\* C2 (as claimed): a client in READY whose every user (itself and the peers
\* it lists, at least one) is in READY or PLAYING, in any combination, has
\* its start scheduled (the timer that then moves it to PLAYING).
C2_StartRule ==
  \A i \in Clients :
    (In(i) /\ gameState[i] = READY /\ everyUserIn(i, {READY, PLAYING}))
      => timers[i] > 0

\* ------------------------------------------------------------------ C3
\* C3 (as claimed): a client in COMPLETE whose every listed peer (at least
\* one) is in SCORES, COMPLETE or WAITING, in any combination, is moved to
\* SCORES by its COMPLETE event: it is never found resting in COMPLETE.
C3_FinishRule ==
  \A i \in Clients :
    (In(i) /\ gameState[i] = COMPLETE)
      => ~everyUserIn(i, {SCORES, COMPLETE, WAITING})

\* ------------------------------------------------------------------ C4
\* C4 (as claimed): after a peer left, a remaining client in READY (resp.
\* COMPLETE) whose start (resp. finish) condition holds over the users that
\* are still listed has its start scheduled (resp. is moved to SCORES).
C4_DisconnectTolerance ==
  \A i \in Clients :
    (In(i) /\ \E j \in Clients : others[i][j] = Gone) =>
      /\ ~(/\ gameState[i] = COMPLETE
           /\ peerStages(i) \subseteq {SCORES, COMPLETE, WAITING})
      /\ ~(/\ gameState[i] = READY
           /\ peerStages(i) \subseteq {READY, PLAYING}
           /\ timers[i] = 0)

\* ------------------------------------------------------------------ C5
\* The steps of client i: its handlers, its timer, what the room delivers
\* to it
ClientStep(i) ==
  \/ Connect(i)
  \/ LoadStorage(i)
  \/ StartTimer(i)
  \/ enterWaitingRoom(i)
  \/ PressReady(i)
  \/ PressUnready(i)
  \/ onLettersGuessed(i)
  \/ onGameComplete(i)
  \/ DeliverScores(i)
  \/ Leave(i)
  \/ \E j \in Clients : DeliverJoin(i, j)
  \/ \E j \in Clients : DeliverLeave(i, j)
  \/ \E j \in Clients \ {i} :
       \E n \in 1..Len(inFlight[i][j]) : DeliverPresence(i, j, n)

\* C5: a step of client i changes no other client's gameState, presence,
\* others, list replica or timers, and changes the shared list only by
\* appending i's own entry.
C5_Decentralised ==
  [][\A i \in Clients :
       ClientStep(i) =>
         /\ \A j \in Clients \ {i} :
              /\ gameState'[j] = gameState[j]
              /\ prevState'[j] = prevState[j]
              /\ myPresence'[j] = myPresence[j]
              /\ others'[j] = others[j]
              /\ scoresSeen'[j] = scoresSeen[j]
              /\ timers'[j] = timers[j]
         /\ \/ savedScores' = savedScores
            \/ savedScores' = Append(savedScores, i)]_vars

\* A client finished and pushed its score while its peer is still playing
C5_Witness ==
  \E i, j \in Clients :
    /\ i # j
    /\ gameState[i] = COMPLETE
    /\ gameState[j] = PLAYING
    /\ savedScores = <<i>>

\* ------------------------------------------------------------------ C6
\* C6: a client that has not left is in CONNECTING exactly while its
\* presence or the scores list is missing; in CONNECTING it has published no
\* stage, and the stage it leaves CONNECTING for is INTRO.
C6_LeavesConnecting ==
  /\ [](\A i \in Clients :
          /\ status[i] # "left" =>
               (gameState[i] = CONNECTING <=> ~(In(i) /\ storageLoaded[i]))
          /\ gameState[i] = CONNECTING =>
               /\ myPresence[i].stage = NoStage
               /\ \A k \in Clients \ {i} :
                    /\ inFlight[k][i] = <<>>
                    /\ others[k][i] \in {Unseen, Gone, NoStage})
  /\ [][\A i \in Clients :
          \A n \in DOMAIN changesOf(i) :
            changesOf(i)[n][1] = CONNECTING => changesOf(i)[n][2] = INTRO]_vars

\* A client is connected and still waits for the list in CONNECTING, while
\* its peer has both and is in INTRO
C6_Witness ==
  \E i, j \in Clients :
    /\ In(i) /\ ~storageLoaded[i] /\ gameState[i] = CONNECTING
    /\ In(j) /\ storageLoaded[j] /\ gameState[j] = INTRO

\* ------------------------------------------------------------------ C7
\* C7: no client rests in INTRO while its scores list holds an entry, and a
\* client leaves INTRO for SCORES when the list holds an entry and for
\* WAITING (the waiting room) when it holds none.
C7_IntroToScores ==
  /\ [](\A i \in Clients : gameState[i] = INTRO => scoresSeen[i] = 0)
  /\ [][\A i \in Clients :
          \A n \in DOMAIN changesOf(i) :
            changesOf(i)[n][1] = INTRO =>
              changesOf(i)[n][2] =
                IF scoresSeen'[i] > 0 THEN SCORES ELSE WAITING]_vars

\* A late joiner was moved from INTRO to SCORES by the score of a player,
\* which has finished and has seen the joiner in INTRO
C7_Witness ==
  \E i, j \in Clients :
    /\ In(i) /\ gameState[i] = SCORES /\ prevState[i] = INTRO
    /\ scoresSeen[i] > 0
    /\ gameState[j] = COMPLETE /\ others[j][i] = INTRO

\* ------------------------------------------------------------------ C8
\* C8 (as claimed): where the program calls it (the READY event with the
\* start stages, the COMPLETE event with the finish stages) on a client that
\* lists at least one peer, allInStages returns true exactly when the
\* client's stage and every listed peer's stage are members of the stage
\* list, different users possibly in different members.
C8_AllInStagesReference ==
  \A i \in Clients :
    (In(i) /\ peerStages(i) # {}) =>
      /\ gameState[i] = READY =>
           (startCondition(Local(i)) <=> everyUserIn(i, Range(StartStages)))
      /\ gameState[i] = COMPLETE =>
           (finishCondition(Local(i)) <=> everyUserIn(i, Range(FinishStages)))

\* ------------------------------------------------------------------ C9
\* C9 (as claimed): once every client has pressed ready, every client reaches
\* PLAYING: when nothing is left to deliver and no timer is pending, all of
\* them are in PLAYING.
C9_StartAgreement ==
  (\A i \in Clients : In(i) /\ gameState[i] \in {READY, PLAYING} /\ Quiet(i))
    => \A i \in Clients : gameState[i] = PLAYING

\* ------------------------------------------------------------------ C10
\* C10 (as claimed): once every client has finished (or, joining late, went
\* from INTRO to SCORES), every client reaches SCORES: when nothing is left
\* to deliver and no timer is pending, all of them are in SCORES.
C10_FinishAgreement ==
  (\A i \in Clients : In(i) /\ gameState[i] \in {COMPLETE, SCORES} /\ Quiet(i))
    => \A i \in Clients : gameState[i] = SCORES
====
